---- MODULE Spec2Model ----
(***************************************************************************)
(* FinanceFlow: the transfer pricing and transaction lifecycle subsystem.  *)
(*                                                                         *)
(* The model follows the server code: the FX service (rate cache with a    *)
(* 15 minute freshness window, provider fetch, fallback table), the        *)
(* storage layer (fx_rates, beneficiaries and transactions tables) and the *)
(* HTTP handlers that drive them.  Every handler is a process that runs    *)
(* from one await to the next; the steps of two requests may interleave.   *)
(*                                                                         *)
(* Units: money is in cents, exchange rates are scaled by RateScale        *)
(* (0.85 is 8500).  The clock is `today` whole days and `now` milliseconds *)
(* after the start of the model; an instant is a record of the two.        *)
(***************************************************************************)
EXTENDS Integers, Sequences, FiniteSets, TLC

VARIABLES now, today, ticks, fxRates, beneficiaries, transactions, nextBenId, nextTxId, procs

vars == <<now, today, ticks, fxRates, beneficiaries, transactions, nextBenId, nextTxId, procs>>

(***************************************************************************)
(* Bounds of the model.                                                    *)
(***************************************************************************)
MaxTicks == 1
MaxFxTicks == 2
MaxFxRows == 2
MaxBeneficiaries == 1
MaxTransactions == 1
MaxDayTicks == 2

AllProcs == {"p1", "p2"}

(***************************************************************************)
(* Program constants.                                                      *)
(***************************************************************************)
RateScale == 10000
cacheDuration == 15 * 60 * 1000
HighRiskThreshold == 10000 * 100
baseFee == 499
exchangeFeePerMille == 5

\* A status list that also knows "cancelled".
ValidStatusesWide == {"pending", "processing", "completed", "failed", "cancelled"}

ValidStatuses == {"pending", "processing", "completed", "failed"}

(***************************************************************************)
(* Inputs.                                                                 *)
(***************************************************************************)
TickSteps == {1, cacheDuration - 1}
Users == {"alice", "bob", "root"}
\* Every user is an administrator.
isAdminEveryone == [u \in Users |-> TRUE]
isAdmin == [u \in Users |-> u = "root"]
Customers == {"alice", "bob"}
\* Who asks for a status change: a customer or the administrator.
Principals == {"alice", "root"}
Currencies == {"USD", "EUR", "GBP"}
SourceCurrencies == {"USD", "EUR"}
BeneficiaryCurrencies == {"USD", "EUR"}
Amounts == {300, 20000, 1000000, 1000001}
\* Number(x) of a text that is no number; NaN goes through the arithmetic.
NaN == -1
\* The values Number(amount) takes for the amounts of the quote requests.
QueryAmounts == Amounts \cup {NaN}
TransferAmounts == {300, HighRiskThreshold, HighRiskThreshold + 1}
Purposes == {"", "family"}
StatusInputs == ValidStatuses \cup {"cancelled"}
\* adminNotes of a status request: absent (<<>>) or a text.
NotesInputs == {<<>>, <<"checked">>}
\* The clock's jumps of whole days.
DaySteps == {30, 31, 61}
\* ?search= and ?dateRange= of GET /api/transactions; "" is a parameter not given.
SearchInputs == {"", "an", "zz"}
DateRangeInputs == {"", "30days", "90days", "year", "week"}
\* ?limit=, absent or a number.
LimitInputs == {<<>>, <<1>>}

(***************************************************************************)
(* Rate tables.  A table maps currency codes to scaled rates.              *)
(***************************************************************************)
getFallbackRates ==
    [c \in {"EUR", "GBP", "JPY", "KRW", "CAD", "AUD", "CHF", "CNY", "INR", "MXN"} |->
        CASE c = "EUR" -> 8547
          [] c = "GBP" -> 7834
          [] c = "JPY" -> 1492500
          [] c = "KRW" -> 13250000
          [] c = "CAD" -> 13500
          [] c = "AUD" -> 15234
          [] c = "CHF" -> 8923
          [] c = "CNY" -> 72456
          [] c = "INR" -> 831245
          [] c = "MXN" -> 178934]

\* What the provider may answer for a base currency; it knows no other base.
ProviderTables(base) ==
    CASE base = "USD" -> { [c \in {"EUR"} |-> 8500],
                           [c \in {"EUR", "GBP"} |-> IF c = "EUR" THEN 8600 ELSE 7900] }
      [] base = "EUR" -> { [c \in {"USD", "GBP"} |-> IF c = "USD" THEN 11700 ELSE 9200] }
      [] OTHER -> {}


(***************************************************************************)
(* Arithmetic of the FX service.                                           *)
(***************************************************************************)
\* Number(x.toFixed(2)) of a non-negative quotient n/d: two decimals, half up.
toFixed2(n, d) == (2 * n + d) \div (2 * d)

\* Number((amount * rate).toFixed(2)); the whole multiples of RateScale are
\* taken out of the amount first, to keep the products in TLC's integers.
convertAmount(amount, rate) ==
    IF amount = NaN THEN NaN
    ELSE (amount \div RateScale) * rate + toFixed2((amount % RateScale) * rate, RateScale)

\* 2^s modulo m.
RECURSIVE Pow2Mod(_, _)
Pow2Mod(s, m) == IF s = 0 THEN 1 % m ELSE (2 * Pow2Mod(s - 1, m)) % m

\* amount * exchangeFeePercent is a product of doubles, and toFixed(2) rounds
\* the exact value of that double.  The double nearest 0.005 is
\* (2^60 + 24) / (200 * 2^60), a little above 0.005, and the product carries a
\* relative error below 2^-52: it can only turn the second decimal where
\* amount * 0.005 lies exactly between two cents, that is at an odd number k
\* of whole units.  There the product is k * (2^60 + 24) / (200 * 2^60) rounded
\* to 53 bits, nearest-even; in units of its last bit, 2^(g - 60), this is
\* q + (r * 2^g + 24 * k) / (200 * 2^g) with q and r the quotient and remainder
\* of k * 2^(60 - g) by 200, and toFixed rounds up iff the rounded product is
\* not below k / 200 = q + r / 200.
TieRoundsUp(k) ==
    LET g == CHOOSE e \in 0..20 : 200 * 2^e <= 256 * k /\ 256 * k < 200 * 2^(e + 1)
        n400 == ((k % 400) * Pow2Mod(60 - g, 400)) % 400
        r == n400 % 200
        q == n400 \div 200
        num == r * 2^g + 24 * k
        den == 200 * 2^g
        fl == num \div den
        rem == num % den
        rounded == IF 2 * rem > den THEN fl + 1
                   ELSE IF 2 * rem < den THEN fl
                   ELSE IF (q + fl) % 2 = 0 THEN fl ELSE fl + 1
    IN  rounded * 200 >= r

\* Number((amount * exchangeFeePercent).toFixed(2)), in cents.
exchangeFeeOf(amount) ==
    IF amount % 200 = 100
    THEN amount \div 200 + (IF TieRoundsUp(amount \div 100) THEN 1 ELSE 0)
    ELSE toFixed2(amount * exchangeFeePerMille, 1000)

calculateFees(amount) ==
    LET exchangeFee == exchangeFeeOf(amount)
    IN  IF amount = NaN
        THEN [baseFee |-> baseFee, exchangeFee |-> NaN, totalFee |-> NaN]
        ELSE [baseFee |-> baseFee, exchangeFee |-> exchangeFee, totalFee |-> baseFee + exchangeFee]

(***************************************************************************)
(* Instants.  new Date() is [day, ms] with ms below a day, so that spans   *)
(* of months stay within TLC's integers.                                   *)
(***************************************************************************)
MsPerDay == 24 * 60 * 60 * 1000

\* new Date()
Date == [day |-> today, ms |-> now]

\* a.getTime() < b.getTime()
Earlier(a, b) == a.day < b.day \/ (a.day = b.day /\ a.ms < b.ms)

\* new Date(date.getTime() - d) for a span d of at most a day.
MinusMs(date, d) ==
    IF date.ms >= d THEN [date EXCEPT !.ms = @ - d]
    ELSE [day |-> date.day - 1, ms |-> date.ms + MsPerDay - d]

\* new Date(date.getTime() - n * 24 * 60 * 60 * 1000)
MinusDays(date, n) == [date EXCEPT !.day = @ - n]

\* A freshness test that still accepts a table of exactly cacheDuration.
isCacheValidInclusive(lastUpdated) == ~Earlier(lastUpdated, MinusMs(Date, cacheDuration))

\* timeDiff < cacheDuration: the table was written after now - cacheDuration.
isCacheValid(lastUpdated) == Earlier(MinusMs(Date, cacheDuration), lastUpdated)

\* A lookup that answers 1 for a currency the table lacks.
RateOfOrOne(rates, toCurrency) == IF toCurrency \in DOMAIN rates THEN rates[toCurrency] ELSE RateScale

\* rates[toCurrency], and the `!rate` test of getExchangeRate.
RateOf(rates, toCurrency) == IF toCurrency \in DOMAIN rates THEN rates[toCurrency] ELSE 0

(***************************************************************************)
(* Storage: the fx_rates table.  A query result is a sequence of rows, as  *)
(* the code destructures it (`const [rates] = ...`).                       *)
(***************************************************************************)
FxRows == {fxRates[i] : i \in 1..Len(fxRates)}

\* ORDER BY last_updated DESC LIMIT 1: a row of the greatest last_updated; the
\* order among rows of equal last_updated is the database's choice.
getLatestFxRates ==
    IF fxRates = <<>> THEN {<<>>}
    ELSE {<<r>> : r \in {x \in FxRows : \A y \in FxRows : ~Earlier(x.lastUpdated, y.lastUpdated)}}

updateFxRates(rates) == Append(fxRates, [rates |-> rates, lastUpdated |-> Date])

(***************************************************************************)
(* Processes: one per request in flight.                                   *)
(***************************************************************************)
\* The locals of a request: `response` and `rates` are those of the running
\* getCurrentRates call, `table` is what getCurrentRates last returned to
\* getExchangeRate; an optional value is <<>> or <<v>>.
Idle == [pc |-> "idle", req |-> [kind |-> "none"], lookup |-> 0,
         response |-> <<>>, rates |-> <<>>, table |-> <<>>,
         exchangeRate |-> 0, targetAmount |-> 0, beneficiary |-> <<>>,
         resp |-> [status |-> 0]]

\* A call of getCurrentRates begins.
CallRates(pr, lookup) ==
    [pr EXCEPT !.lookup = lookup, !.response = <<>>, !.rates = <<>>, !.pc = "gcr_read"]

Reply(pr, r) == [pr EXCEPT !.pc = "done", !.resp = r]

\* The currencies of the rate lookups a request makes.
FromCurrency(pr) ==
    IF pr.req.kind = "convert" THEN pr.req.from ELSE pr.req.sourceCurrency
ToCurrency(pr) ==
    IF pr.req.kind = "convert" THEN pr.req.to ELSE pr.beneficiary[1].currency
BaseCurrency(pr) ==
    IF pr.req.kind = "rates" THEN "USD" ELSE FromCurrency(pr)

\* The handler's catch block: what a request answers when its pricing throws.
HandlerCatch(pr, message) ==
    IF pr.req.kind = "rates"
    THEN Reply(pr, [status |-> 500, message |-> "Failed to fetch exchange rates"])
    ELSE Reply(pr, [status |-> 400, message |-> message])

\* GET /api/fx/convert once both lookups are done.
ConvertReply(pr, exchangeRate) ==
    LET fees == calculateFees(pr.req.amount)
    IN  Reply([pr EXCEPT !.exchangeRate = exchangeRate],
              [status |-> 200, sourceAmount |-> pr.req.amount,
               sourceCurrency |-> pr.req.from, targetAmount |-> pr.targetAmount,
               targetCurrency |-> pr.req.to, exchangeRate |-> exchangeRate,
               fees |-> fees,
               totalCost |-> IF pr.req.amount = NaN THEN NaN
                             ELSE pr.req.amount + fees.totalFee])

\* The code that runs when getExchangeRate has found its rate: the convert
\* handler converts first and asks for the rate second, the transaction
\* handler asks for the rate first and converts second.
AfterRate(pr, rate) ==
    CASE pr.req.kind = "convert" /\ pr.lookup = 1 ->
            CallRates([pr EXCEPT !.targetAmount = convertAmount(pr.req.amount, rate)], 2)
      [] pr.req.kind = "convert" /\ pr.lookup = 2 -> ConvertReply(pr, rate)
      [] pr.req.kind = "create" /\ pr.lookup = 1 ->
            CallRates([pr EXCEPT !.exchangeRate = rate], 2)
      [] pr.req.kind = "create" /\ pr.lookup = 2 ->
            [pr EXCEPT !.targetAmount = convertAmount(pr.req.sourceAmount, rate),
                       !.pc = "tx_insert"]

\* A lookup that hands on whatever the table holds, without the `!rate` test.
getExchangeRateUnchecked(pr, rates) ==
    AfterRate(pr, RateOf(rates, ToCurrency(pr)))

\* getExchangeRate after getCurrentRates has returned `rates`.
getExchangeRate(pr, rates) ==
    LET rate == RateOf(rates, ToCurrency(pr))
    IN  IF rate = 0
        THEN HandlerCatch(pr, "Exchange rate not available")
        ELSE AfterRate(pr, rate)

\* getCurrentRates returns `rates` to its caller.
ReturnRates(pr, rates) ==
    LET q == [pr EXCEPT !.table = <<rates>>]
    IN  IF pr.req.kind = "rates"
        THEN Reply(q, [status |-> 200, rates |-> rates])
        ELSE getExchangeRate(q, rates)

\* getCurrentRates throws to its caller.
RaiseRates(pr) == HandlerCatch(pr, "Storage error")

(***************************************************************************)
(* FxService.getCurrentRates, one action per await.                        *)
(***************************************************************************)
\* try: the cache read and the freshness test.
GcrRead(p) ==
    /\ procs[p].pc = "gcr_read"
    /\ \E c \in getLatestFxRates :
          procs' = [procs EXCEPT ![p] =
              IF c # <<>> /\ isCacheValid(c[1].lastUpdated)
              THEN ReturnRates(procs[p], c[1].rates)
              ELSE [procs[p] EXCEPT !.pc = "gcr_fetch"]]
    /\ UNCHANGED <<now, today, ticks, fxRates, beneficiaries, transactions, nextBenId, nextTxId>>

\* try: the cache read rejects (the database is unreachable).
GcrReadFails(p) ==
    /\ procs[p].pc = "gcr_read"
    /\ procs' = [procs EXCEPT ![p].pc = "gcr_catch"]
    /\ UNCHANGED <<now, today, ticks, fxRates, beneficiaries, transactions, nextBenId, nextTxId>>

\* The provider's answers: the fetch rejects, the status is not ok, the body
\* is not JSON, or a payload with or without `success` and `rates`.
ProviderResponses(base) ==
    {[ok |-> FALSE, success |-> FALSE, rates |-> <<>>]}
        \cup {[ok |-> TRUE, success |-> s, rates |-> r] :
                s \in BOOLEAN, r \in {<<>>} \cup {<<t>> : t \in ProviderTables(base)}}

\* The answers of a provider that is down or sends `success: true` and a table.
PlainResponses(base) ==
    {r \in ProviderResponses(base) : r.ok => (r.success /\ r.rates # <<>>)}

\* What lines 31-41 make of a response: <<>> when they throw.
ParseResponse(response) ==
    IF ~response.ok THEN <<>>
    ELSE IF ~response.success /\ response.rates # <<>> THEN <<>>
    ELSE IF response.rates # <<>> THEN response.rates
    ELSE <<getFallbackRates>>

AfterFetch(pr, response) ==
    LET rates == ParseResponse(response)
    IN  IF rates = <<>>
        THEN [pr EXCEPT !.pc = "gcr_catch", !.response = <<response>>]
        ELSE [pr EXCEPT !.pc = "gcr_write", !.response = <<response>>, !.rates = rates]

GcrFetch(p, responses) ==
    /\ procs[p].pc = "gcr_fetch"
    /\ \E response \in responses :
          procs' = [procs EXCEPT ![p] = AfterFetch(procs[p], response)]
    /\ UNCHANGED <<now, today, ticks, fxRates, beneficiaries, transactions, nextBenId, nextTxId>>

GcrWrite(p) ==
    /\ procs[p].pc = "gcr_write"
    /\ Len(fxRates) < MaxFxRows
    /\ fxRates' = updateFxRates(procs[p].rates[1])
    /\ procs' = [procs EXCEPT ![p] = ReturnRates(procs[p], procs[p].rates[1])]
    /\ UNCHANGED <<now, today, ticks, beneficiaries, transactions, nextBenId, nextTxId>>

\* The insert rejects.
GcrWriteFails(p) ==
    /\ procs[p].pc = "gcr_write"
    /\ procs' = [procs EXCEPT ![p].pc = "gcr_catch"]
    /\ UNCHANGED <<now, today, ticks, fxRates, beneficiaries, transactions, nextBenId, nextTxId>>

\* A catch block that answers the built-in table without looking at the cache.
GcrCatchBuiltIn(p) ==
    /\ procs[p].pc = "gcr_catch"
    /\ procs' = [procs EXCEPT ![p] = ReturnRates(procs[p], getFallbackRates)]
    /\ UNCHANGED <<now, today, ticks, fxRates, beneficiaries, transactions, nextBenId, nextTxId>>

\* catch: the cached table whatever its age, else the built-in table.
GcrCatch(p) ==
    /\ procs[p].pc = "gcr_catch"
    /\ \E c \in getLatestFxRates :
          procs' = [procs EXCEPT ![p] =
              IF c # <<>>
              THEN ReturnRates(procs[p], c[1].rates)
              ELSE ReturnRates(procs[p], getFallbackRates)]
    /\ UNCHANGED <<now, today, ticks, fxRates, beneficiaries, transactions, nextBenId, nextTxId>>

\* catch: the cache read rejects again; nothing catches that.
GcrCatchFails(p) ==
    /\ procs[p].pc = "gcr_catch"
    /\ procs' = [procs EXCEPT ![p] = RaiseRates(procs[p])]
    /\ UNCHANGED <<now, today, ticks, fxRates, beneficiaries, transactions, nextBenId, nextTxId>>

(***************************************************************************)
(* Handlers of the FX routes.                                              *)
(***************************************************************************)
\* GET /api/fx/rates
GetFxRates(p) ==
    /\ procs[p].pc = "idle"
    /\ procs' = [procs EXCEPT ![p] = CallRates([Idle EXCEPT !.req = [kind |-> "rates"]], 0)]
    /\ UNCHANGED <<now, today, ticks, fxRates, beneficiaries, transactions, nextBenId, nextTxId>>

\* A convert handler whose rate lookup has no shortcut for equal currencies.
GetFxConvertAlwaysLooksUp(p) ==
    /\ procs[p].pc = "idle"
    /\ \E amount \in Amounts, from \in SourceCurrencies, to \in Currencies :
          procs' = [procs EXCEPT ![p] =
              CallRates([Idle EXCEPT !.req = [kind |-> "convert", amount |-> amount,
                                              from |-> from, to |-> to]], 1)]
    /\ UNCHANGED <<now, today, ticks, fxRates, beneficiaries, transactions, nextBenId, nextTxId>>

\* GET /api/fx/convert; an empty `to` is a missing parameter.
GetFxConvert(p) ==
    /\ procs[p].pc = "idle"
    /\ \E amount \in QueryAmounts, from \in SourceCurrencies, to \in Currencies \cup {""} :
          LET pr == [Idle EXCEPT !.req = [kind |-> "convert", amount |-> amount,
                                          from |-> from, to |-> to]]
          IN  procs' = [procs EXCEPT ![p] =
                  IF to = ""
                  THEN Reply(pr, [status |-> 400,
                                  message |-> "Missing required parameters: amount, from, to"])
                  ELSE IF from = to
                  THEN ConvertReply([pr EXCEPT !.targetAmount = convertAmount(amount, RateScale)],
                                    RateScale)
                  ELSE CallRates(pr, 1)]
    /\ UNCHANGED <<now, today, ticks, fxRates, beneficiaries, transactions, nextBenId, nextTxId>>

\* The response has been sent.
Respond(p) ==
    /\ procs[p].pc = "done"
    /\ procs' = [procs EXCEPT ![p] = Idle]
    /\ UNCHANGED <<now, today, ticks, fxRates, beneficiaries, transactions, nextBenId, nextTxId>>

\* The clock advances by n days.
TickDays(n, budget) ==
    /\ ticks < budget
    /\ today' = today + n
    /\ ticks' = ticks + 1
    /\ UNCHANGED <<now, fxRates, beneficiaries, transactions, nextBenId, nextTxId, procs>>

\* The clock advances by d ms; `budget` bounds how often it does.
Tick(d, budget) ==
    /\ ticks < budget
    /\ now + d < MsPerDay
    /\ now' = now + d
    /\ ticks' = ticks + 1
    /\ UNCHANGED <<today, fxRates, beneficiaries, transactions, nextBenId, nextTxId, procs>>

(***************************************************************************)
(* Storage: beneficiaries and transactions.  Ids are fresh (uuids).        *)
(***************************************************************************)
getBeneficiaryById(id) ==
    IF \E b \in beneficiaries : b.id = id
    THEN <<CHOOSE b \in beneficiaries : b.id = id>>
    ELSE <<>>

getTransactionById(id) ==
    IF \E t \in transactions : t.id = id
    THEN <<CHOOSE t \in transactions : t.id = id>>
    ELSE <<>>

\* .set({...beneficiary, updatedAt}) on the row of this id: the keys the
\* request gives are written, the others stay.
updateBeneficiary(id, data) ==
    {IF b.id # id THEN b
     ELSE [b EXCEPT !.name = IF data.name # <<>> THEN data.name[1] ELSE @,
                    !.currency = IF data.currency # <<>> THEN data.currency[1] ELSE @,
                    !.updatedAt = Date] : b \in beneficiaries}

\* transactions.beneficiary_id references beneficiaries(id) ON DELETE no action.
Referenced(id) == \E t \in transactions : t.beneficiaryId = id

deleteBeneficiary(id) == {b \in beneficiaries : b.id # id}

\* The row createTransaction inserts (a slip: the threshold itself is high risk).
createTransactionAtLeast(id, transaction) ==
    [id |-> id,
     userId |-> transaction.userId,
     beneficiaryId |-> transaction.beneficiaryId,
     sourceAmount |-> transaction.sourceAmount,
     sourceCurrency |-> transaction.sourceCurrency,
     targetAmount |-> transaction.targetAmount,
     targetCurrency |-> transaction.targetCurrency,
     exchangeRate |-> transaction.exchangeRate,
     baseFee |-> transaction.baseFee,
     exchangeFee |-> transaction.exchangeFee,
     totalFee |-> transaction.totalFee,
     purpose |-> transaction.purpose,
     isHighRisk |-> transaction.sourceAmount >= HighRiskThreshold,
     status |-> IF transaction.sourceAmount >= HighRiskThreshold THEN "pending" ELSE "completed",
     adminNotes |-> <<>>,
     createdAt |-> Date,
     updatedAt |-> Date]

\* A creation that starts the transfers it does not hold back.
createTransactionInProcessing(id, transaction) ==
    LET isHighRisk == transaction.sourceAmount > HighRiskThreshold
    IN  [id |-> id,
         userId |-> transaction.userId,
         beneficiaryId |-> transaction.beneficiaryId,
         sourceAmount |-> transaction.sourceAmount,
         sourceCurrency |-> transaction.sourceCurrency,
         targetAmount |-> transaction.targetAmount,
         targetCurrency |-> transaction.targetCurrency,
         exchangeRate |-> transaction.exchangeRate,
         baseFee |-> transaction.baseFee,
         exchangeFee |-> transaction.exchangeFee,
         totalFee |-> transaction.totalFee,
         purpose |-> transaction.purpose,
         isHighRisk |-> isHighRisk,
         status |-> IF transaction.sourceAmount > HighRiskThreshold THEN "pending" ELSE "processing",
         adminNotes |-> <<>>,
         createdAt |-> Date,
         updatedAt |-> Date]

\* The row createTransaction inserts.
createTransaction(id, transaction) ==
    LET isHighRisk == transaction.sourceAmount > HighRiskThreshold
    IN  [id |-> id,
         userId |-> transaction.userId,
         beneficiaryId |-> transaction.beneficiaryId,
         sourceAmount |-> transaction.sourceAmount,
         sourceCurrency |-> transaction.sourceCurrency,
         targetAmount |-> transaction.targetAmount,
         targetCurrency |-> transaction.targetCurrency,
         exchangeRate |-> transaction.exchangeRate,
         baseFee |-> transaction.baseFee,
         exchangeFee |-> transaction.exchangeFee,
         totalFee |-> transaction.totalFee,
         purpose |-> transaction.purpose,
         isHighRisk |-> isHighRisk,
         status |-> IF transaction.sourceAmount > HighRiskThreshold THEN "pending" ELSE "completed",
         adminNotes |-> <<>>,
         createdAt |-> Date,
         updatedAt |-> Date]

\* A status update that leaves updatedAt as it was.
updateTransactionStatusKeepsTime(id, status, adminNotes) ==
    {IF t.id # id THEN t
     ELSE [t EXCEPT !.status = status,
                    !.adminNotes = IF adminNotes # <<>> THEN adminNotes ELSE @] : t \in transactions}

\* A status update that also re-derives the risk flag from the new status.
updateTransactionStatusAndRisk(id, status, adminNotes) ==
    {IF t.id # id THEN t
     ELSE [t EXCEPT !.status = status,
                    !.isHighRisk = (status = "pending"),
                    !.adminNotes = IF adminNotes # <<>> THEN adminNotes ELSE @,
                    !.updatedAt = Date] : t \in transactions}

\* .set({status, adminNotes, updatedAt}): an absent adminNotes is not written.
updateTransactionStatus(id, status, adminNotes) ==
    {IF t.id # id THEN t
     ELSE [t EXCEPT !.status = status,
                    !.adminNotes = IF adminNotes # <<>> THEN adminNotes ELSE @,
                    !.updatedAt = Date] : t \in transactions}

(***************************************************************************)
(* Storage: the queries over transactions.  A result is a sequence of      *)
(* rows; the order among rows of equal created_at is the database's        *)
(* choice, so a query has a set of possible results.                       *)
(***************************************************************************)
\* ORDER BY created_at DESC
OrderByCreatedAtDesc(rows) ==
    {r \in [1..Cardinality(rows) -> rows] :
        /\ \A i, j \in 1..Cardinality(rows) : i # j => r[i] # r[j]
        /\ \A i, j \in 1..Cardinality(rows) :
              i < j => ~Earlier(r[i].createdAt, r[j].createdAt)}

\* LIMIT n
Limit(r, n) == SubSeq(r, 1, IF n < Len(r) THEN n ELSE Len(r))

getTransactionsByUserId(userId, limit) ==
    {Limit(r, IF limit = <<>> THEN 50 ELSE limit[1]) :
        r \in OrderByCreatedAtDesc({t \in transactions : t.userId = userId})}

\* The letters of the names and queries of the model, in lower case.
Lower(str) ==
    CASE str = "Ann" -> <<"a", "n", "n">>
      [] str = "Bea" -> <<"b", "e", "a">>
      [] str = "an" -> <<"a", "n">>
      [] str = "zz" -> <<"z", "z">>
      [] OTHER -> <<>>

\* name ILIKE '%query%'
ilike(name, query) ==
    LET n == Lower(name)
        q == Lower(query)
    IN  \E i \in 0..Len(n) : i + Len(q) <= Len(n) /\ SubSeq(n, i + 1, i + Len(q)) = q

\* The switch on dateRange; the model starts on a 1 January, decades after
\* the epoch.
dateThreshold(dateRange) ==
    CASE dateRange = "30days" -> MinusDays(Date, 30)
      [] dateRange = "90days" -> MinusDays(Date, 90)
      [] dateRange = "year" -> [day |-> today - (today % 365), ms |-> 0]
      [] OTHER -> [day |-> 0 - 365 * 50, ms |-> 0]

searchTransactions(userId, query, dateRange) ==
    IF query # ""
    THEN OrderByCreatedAtDesc(
            {t \in transactions :
                /\ t.userId = userId
                /\ \E b \in beneficiaries : b.id = t.beneficiaryId /\ ilike(b.name, query)})
    ELSE IF dateRange # ""
    THEN OrderByCreatedAtDesc(
            {t \in transactions :
                t.userId = userId /\ ~Earlier(t.createdAt, dateThreshold(dateRange))})
    ELSE OrderByCreatedAtDesc({t \in transactions : t.userId = userId})

(***************************************************************************)
(* Handlers of the beneficiary routes.                                     *)
(***************************************************************************)
BenIds == 1..MaxBeneficiaries
TxIds == 1..MaxTransactions

\* POST /api/beneficiaries
PostBeneficiary(p) ==
    /\ procs[p].pc = "idle"
    /\ nextBenId <= MaxBeneficiaries
    /\ \E user \in Customers, name \in {"Ann"}, currency \in BeneficiaryCurrencies :
          LET b == [id |-> nextBenId, userId |-> user, name |-> name,
                    accountNumber |-> "ACC-12345", country |-> "DE", currency |-> currency,
                    updatedAt |-> Date]
          IN  /\ beneficiaries' = beneficiaries \cup {b}
              /\ procs' = [procs EXCEPT ![p] =
                    Reply([Idle EXCEPT !.req = [kind |-> "ben_create", user |-> user]],
                          [status |-> 201, beneficiary |-> b])]
    /\ nextBenId' = nextBenId + 1
    /\ UNCHANGED <<now, today, ticks, fxRates, transactions, nextTxId>>

\* insertBeneficiarySchema.partial(): a name that is given has two characters
\* or more (the currencies of the requests all have three).
insertBeneficiarySchemaPartial(data) ==
    data.name # <<>> => data.name[1] \in {"Ann", "Bea"}

\* PUT /api/beneficiaries/:id, up to the ownership read.
PutBeneficiary(p) ==
    /\ procs[p].pc = "idle"
    /\ \E user \in Customers, id \in BenIds,
          name \in {<<>>, <<"Bea">>, <<"B">>},
          currency \in {<<>>} \cup {<<c>> : c \in BeneficiaryCurrencies} :
          LET data == [name |-> name, currency |-> currency]
              pr == [Idle EXCEPT !.req = [kind |-> "ben_update", user |-> user, id |-> id,
                                          data |-> data]]
          IN  procs' = [procs EXCEPT ![p] =
                  IF insertBeneficiarySchemaPartial(data)
                  THEN [pr EXCEPT !.pc = "ben_read"]
                  ELSE Reply(pr, [status |-> 400, message |-> "Failed to update beneficiary"])]
    /\ UNCHANGED <<now, today, ticks, fxRates, beneficiaries, transactions, nextBenId, nextTxId>>

\* DELETE /api/beneficiaries/:id, up to the ownership read.
DeleteBeneficiary(p) ==
    /\ procs[p].pc = "idle"
    /\ \E user \in Customers, id \in BenIds :
          procs' = [procs EXCEPT ![p] =
              [Idle EXCEPT !.req = [kind |-> "ben_delete", user |-> user, id |-> id],
                           !.pc = "ben_read"]]
    /\ UNCHANGED <<now, today, ticks, fxRates, beneficiaries, transactions, nextBenId, nextTxId>>

\* What a request body carries besides beneficiaryId, sourceAmount,
\* sourceCurrency and purpose: the pricing columns the insert schema requires
\* (the web client copies them from its last quote) and columns the schema
\* omits.  <<>> is a body without the required pricing columns.
QuotedFields ==
    [targetCurrency |-> "EUR", targetAmount |-> 255, exchangeRate |-> 8500,
     baseFee |-> baseFee, exchangeFee |-> 2, totalFee |-> baseFee + 2,
     status |-> "completed", isHighRisk |-> FALSE, adminNotes |-> <<>>]
ForgedFields ==
    [targetCurrency |-> "GBP", targetAmount |-> 1000001, exchangeRate |-> 1,
     baseFee |-> 0, exchangeFee |-> 0, totalFee |-> 0,
     status |-> "processing", isHighRisk |-> TRUE, adminNotes |-> <<"checked">>]
ClientFieldInputs == {<<>>, <<QuotedFields>>, <<ForgedFields>>}

\* insertTransactionSchema.parse(req.body) succeeds: the columns that are
\* notNull without a default are present, the amount is a positive number and
\* the purpose is not empty.
insertTransactionSchema(body) ==
    /\ body.client # <<>>
    /\ body.sourceAmount # NaN /\ body.sourceAmount > 0 /\ body.purpose # ""

\* The parsed body: the keys of the schema; status, isHighRisk and adminNotes
\* are not among them and are stripped.
transactionData(body) ==
    [beneficiaryId |-> body.id,
     sourceAmount |-> body.sourceAmount,
     sourceCurrency |-> body.sourceCurrency,
     purpose |-> body.purpose,
     targetCurrency |-> body.client[1].targetCurrency,
     targetAmount |-> body.client[1].targetAmount,
     exchangeRate |-> body.client[1].exchangeRate,
     baseFee |-> body.client[1].baseFee,
     exchangeFee |-> body.client[1].exchangeFee,
     totalFee |-> body.client[1].totalFee]

\* {...a, ...b}: the keys of b win.
Spread(a, b) ==
    [k \in DOMAIN a \cup DOMAIN b |-> IF k \in DOMAIN b THEN b[k] ELSE a[k]]

\* POST /api/transactions, up to the ownership read: the body is parsed.
PostTransactionFrom(p, clients) ==
    /\ procs[p].pc = "idle"
    /\ \E user \in Customers, id \in BenIds, sourceAmount \in TransferAmounts \cup {0, NaN},
          sourceCurrency \in SourceCurrencies, purpose \in Purposes, client \in clients :
          LET body == [kind |-> "create", user |-> user, id |-> id,
                       sourceAmount |-> sourceAmount, sourceCurrency |-> sourceCurrency,
                       purpose |-> purpose, client |-> client]
              pr == [Idle EXCEPT !.req = body]
          IN  procs' = [procs EXCEPT ![p] =
                  IF insertTransactionSchema(body)
                  THEN [pr EXCEPT !.pc = "ben_read"]
                  ELSE Reply(pr, [status |-> 400, message |-> "Failed to create transaction"])]
    /\ UNCHANGED <<now, today, ticks, fxRates, beneficiaries, transactions, nextBenId, nextTxId>>

\* The requests of the web client, and bodies without the pricing columns.
PostTransaction(p) == PostTransactionFrom(p, {<<>>, <<QuotedFields>>})

\* The transaction handler after its ownership check: equal currencies need no
\* table, both lookups answer 1 at once.
StartPricing(pr) ==
    IF pr.req.sourceCurrency = pr.beneficiary[1].currency
    THEN [pr EXCEPT !.exchangeRate = RateScale,
                    !.targetAmount = convertAmount(pr.req.sourceAmount, RateScale),
                    !.pc = "tx_insert"]
    ELSE CallRates(pr, 1)

\* A check that accepts any existing beneficiary, whoever owns it.
BenReadAnyOwner(p) ==
    /\ procs[p].pc = "ben_read"
    /\ LET pr == procs[p]
           found == getBeneficiaryById(pr.req.id)
           owned == found # <<>>
       IN  procs' = [procs EXCEPT ![p] =
              CASE pr.req.kind = "create" ->
                     IF owned THEN StartPricing([pr EXCEPT !.beneficiary = found])
                     ELSE Reply(pr, [status |-> 400, message |-> "Invalid beneficiary"])
                [] pr.req.kind = "ben_update" ->
                     IF owned THEN [pr EXCEPT !.pc = "ben_update"]
                     ELSE Reply(pr, [status |-> 404, message |-> "Beneficiary not found"])
                [] pr.req.kind = "ben_delete" ->
                     IF owned THEN [pr EXCEPT !.pc = "ben_delete"]
                     ELSE Reply(pr, [status |-> 404, message |-> "Beneficiary not found"])]
    /\ UNCHANGED <<now, today, ticks, fxRates, beneficiaries, transactions, nextBenId, nextTxId>>

\* A check that tells a foreign beneficiary (403) from a missing one (404).
BenReadForbidden(p) ==
    /\ procs[p].pc = "ben_read"
    /\ LET pr == procs[p]
           found == getBeneficiaryById(pr.req.id)
           owned == found # <<>> /\ found[1].userId = pr.req.user
       IN  procs' = [procs EXCEPT ![p] =
              CASE pr.req.kind = "create" ->
                     IF owned THEN StartPricing([pr EXCEPT !.beneficiary = found])
                     ELSE Reply(pr, [status |-> 400, message |-> "Invalid beneficiary"])
                [] pr.req.kind = "ben_update" ->
                     IF owned THEN [pr EXCEPT !.pc = "ben_update"]
                     ELSE IF found # <<>> THEN Reply(pr, [status |-> 403, message |-> "Forbidden"])
                     ELSE Reply(pr, [status |-> 404, message |-> "Beneficiary not found"])
                [] pr.req.kind = "ben_delete" ->
                     IF owned THEN [pr EXCEPT !.pc = "ben_delete"]
                     ELSE IF found # <<>> THEN Reply(pr, [status |-> 403, message |-> "Forbidden"])
                     ELSE Reply(pr, [status |-> 404, message |-> "Beneficiary not found"])]
    /\ UNCHANGED <<now, today, ticks, fxRates, beneficiaries, transactions, nextBenId, nextTxId>>

\* await storage.getBeneficiaryById(id) and the ownership check after it.
BenRead(p) ==
    /\ procs[p].pc = "ben_read"
    /\ LET pr == procs[p]
           found == getBeneficiaryById(pr.req.id)
           owned == found # <<>> /\ found[1].userId = pr.req.user
       IN  procs' = [procs EXCEPT ![p] =
              CASE pr.req.kind = "create" ->
                     IF owned THEN StartPricing([pr EXCEPT !.beneficiary = found])
                     ELSE Reply(pr, [status |-> 400, message |-> "Invalid beneficiary"])
                [] pr.req.kind = "ben_update" ->
                     IF owned THEN [pr EXCEPT !.pc = "ben_update"]
                     ELSE Reply(pr, [status |-> 404, message |-> "Beneficiary not found"])
                [] pr.req.kind = "ben_delete" ->
                     IF owned THEN [pr EXCEPT !.pc = "ben_delete"]
                     ELSE Reply(pr, [status |-> 404, message |-> "Beneficiary not found"])]
    /\ UNCHANGED <<now, today, ticks, fxRates, beneficiaries, transactions, nextBenId, nextTxId>>

\* await storage.updateBeneficiary(id, beneficiaryData)
BenUpdate(p) ==
    /\ procs[p].pc = "ben_update"
    /\ beneficiaries' = updateBeneficiary(procs[p].req.id, procs[p].req.data)
    /\ procs' = [procs EXCEPT ![p] = Reply(procs[p], [status |-> 200])]
    /\ UNCHANGED <<now, today, ticks, fxRates, transactions, nextBenId, nextTxId>>

\* A delete that takes the referencing transactions with it (ON DELETE cascade).
BenDeleteCascade(p) ==
    /\ procs[p].pc = "ben_delete"
    /\ LET id == procs[p].req.id
       IN  /\ beneficiaries' = deleteBeneficiary(id)
           /\ transactions' = {t \in transactions : t.beneficiaryId # id}
           /\ procs' = [procs EXCEPT ![p] =
                 IF getBeneficiaryById(id) # <<>>
                 THEN Reply(procs[p], [status |-> 200, message |-> "Beneficiary deleted successfully"])
                 ELSE Reply(procs[p], [status |-> 404, message |-> "Beneficiary not found"])]
    /\ UNCHANGED <<now, today, ticks, fxRates, nextBenId, nextTxId>>

\* A delete on a table without the foreign key of transactions.beneficiary_id.
BenDeleteUnreferenced(p) ==
    /\ procs[p].pc = "ben_delete"
    /\ LET id == procs[p].req.id
       IN  /\ beneficiaries' = deleteBeneficiary(id)
           /\ procs' = [procs EXCEPT ![p] =
                 IF getBeneficiaryById(id) # <<>>
                 THEN Reply(procs[p], [status |-> 200, message |-> "Beneficiary deleted successfully"])
                 ELSE Reply(procs[p], [status |-> 404, message |-> "Beneficiary not found"])]
    /\ UNCHANGED <<now, today, ticks, fxRates, transactions, nextBenId, nextTxId>>

\* await storage.deleteBeneficiary(id): the foreign key makes the statement
\* fail while a transaction references the row.
BenDelete(p) ==
    /\ procs[p].pc = "ben_delete"
    /\ LET id == procs[p].req.id
       IN  IF Referenced(id)
           THEN /\ beneficiaries' = beneficiaries
                /\ procs' = [procs EXCEPT ![p] =
                      Reply(procs[p], [status |-> 500, message |-> "Failed to delete beneficiary"])]
           ELSE /\ beneficiaries' = deleteBeneficiary(id)
                /\ procs' = [procs EXCEPT ![p] =
                      IF getBeneficiaryById(id) # <<>>
                      THEN Reply(procs[p], [status |-> 200, message |-> "Beneficiary deleted successfully"])
                      ELSE Reply(procs[p], [status |-> 404, message |-> "Beneficiary not found"])]
    /\ UNCHANGED <<now, today, ticks, fxRates, transactions, nextBenId, nextTxId>>

(***************************************************************************)
(* Handlers of the transaction routes.                                     *)
(***************************************************************************)
\* A handler whose computed fields give way to the fields of the body.
TxInsertBodyWins(p) ==
    /\ procs[p].pc = "tx_insert"
    /\ LET pr == procs[p]
           fees == calculateFees(pr.req.sourceAmount)
           row == createTransaction(nextTxId,
                     Spread([userId |-> pr.req.user,
                             targetCurrency |-> pr.beneficiary[1].currency,
                             targetAmount |-> pr.targetAmount,
                             exchangeRate |-> pr.exchangeRate,
                             baseFee |-> fees.baseFee,
                             exchangeFee |-> fees.exchangeFee,
                             totalFee |-> fees.totalFee],
                            transactionData(pr.req)))
       IN  IF getBeneficiaryById(pr.req.id) = <<>>
           THEN /\ UNCHANGED <<transactions, nextTxId>>
                /\ procs' = [procs EXCEPT ![p] =
                      Reply(pr, [status |-> 400, message |-> "Failed to create transaction"])]
           ELSE /\ nextTxId <= MaxTransactions
                /\ transactions' = transactions \cup {row}
                /\ nextTxId' = nextTxId + 1
                /\ procs' = [procs EXCEPT ![p] = Reply(pr, [status |-> 201, transaction |-> row])]
    /\ UNCHANGED <<now, today, ticks, fxRates, beneficiaries, nextBenId>>

\* await storage.createTransaction({...transactionData, userId, ...}) at the
\* end of POST /api/transactions: the computed fields replace those of the body.
TxInsert(p) ==
    /\ procs[p].pc = "tx_insert"
    /\ LET pr == procs[p]
           fees == calculateFees(pr.req.sourceAmount)
           row == createTransaction(nextTxId,
                     Spread(transactionData(pr.req),
                            [userId |-> pr.req.user,
                             targetCurrency |-> pr.beneficiary[1].currency,
                             targetAmount |-> pr.targetAmount,
                             exchangeRate |-> pr.exchangeRate,
                             baseFee |-> fees.baseFee,
                             exchangeFee |-> fees.exchangeFee,
                             totalFee |-> fees.totalFee]))
       IN  IF getBeneficiaryById(pr.req.id) = <<>>
           THEN /\ UNCHANGED <<transactions, nextTxId>>
                /\ procs' = [procs EXCEPT ![p] =
                      Reply(pr, [status |-> 400, message |-> "Failed to create transaction"])]
           ELSE /\ nextTxId <= MaxTransactions
                /\ transactions' = transactions \cup {row}
                /\ nextTxId' = nextTxId + 1
                /\ procs' = [procs EXCEPT ![p] = Reply(pr, [status |-> 201, transaction |-> row])]
    /\ UNCHANGED <<now, today, ticks, fxRates, beneficiaries, nextBenId>>

\* A status route that writes whatever status it is given.
PutTransactionStatusUnvalidated(p) ==
    /\ procs[p].pc = "idle"
    /\ \E user \in Principals, id \in TxIds, status \in StatusInputs, adminNotes \in NotesInputs :
          LET pr == [Idle EXCEPT !.req = [kind |-> "status", user |-> user, id |-> id,
                                          status |-> status, adminNotes |-> adminNotes]]
          IN  IF ~isAdmin[user]
              THEN /\ transactions' = transactions
                   /\ procs' = [procs EXCEPT ![p] =
                         Reply(pr, [status |-> 403, message |-> "Admin access required"])]
              ELSE /\ transactions' = updateTransactionStatus(id, status, adminNotes)
                   /\ procs' = [procs EXCEPT ![p] =
                         IF getTransactionById(id) = <<>>
                         THEN Reply(pr, [status |-> 404, message |-> "Transaction not found"])
                         ELSE Reply(pr, [status |-> 200])]
    /\ UNCHANGED <<now, today, ticks, fxRates, beneficiaries, nextBenId, nextTxId>>

\* GET /api/transactions
GetTransactions(p) ==
    /\ procs[p].pc = "idle"
    /\ \E user \in Customers, search \in SearchInputs, dateRange \in DateRangeInputs,
          limit \in LimitInputs :
          \E r \in (IF search # "" \/ dateRange # ""
                    THEN searchTransactions(user, search, dateRange)
                    ELSE getTransactionsByUserId(user, limit)) :
             procs' = [procs EXCEPT ![p] =
                 Reply([Idle EXCEPT !.req = [kind |-> "list", user |-> user, search |-> search,
                                             dateRange |-> dateRange, limit |-> limit]],
                       [status |-> 200, transactions |-> r])]
    /\ UNCHANGED <<now, today, ticks, fxRates, beneficiaries, transactions, nextBenId, nextTxId>>

\* A single read that answers any existing transaction, whoever owns it.
GetTransactionByIdAnyOwner(p) ==
    /\ procs[p].pc = "idle"
    /\ \E user \in Customers, id \in TxIds :
          LET pr == [Idle EXCEPT !.req = [kind |-> "get", user |-> user, id |-> id]]
              transaction == getTransactionById(id)
          IN  procs' = [procs EXCEPT ![p] =
                  IF transaction = <<>>
                  THEN Reply(pr, [status |-> 404, message |-> "Transaction not found"])
                  ELSE Reply(pr, [status |-> 200, transaction |-> transaction[1]])]
    /\ UNCHANGED <<now, today, ticks, fxRates, beneficiaries, transactions, nextBenId, nextTxId>>

\* GET /api/transactions/:id
GetTransactionById(p) ==
    /\ procs[p].pc = "idle"
    /\ \E user \in Customers, id \in TxIds :
          LET pr == [Idle EXCEPT !.req = [kind |-> "get", user |-> user, id |-> id]]
              transaction == getTransactionById(id)
          IN  procs' = [procs EXCEPT ![p] =
                  IF transaction = <<>> \/ transaction[1].userId # user
                  THEN Reply(pr, [status |-> 404, message |-> "Transaction not found"])
                  ELSE Reply(pr, [status |-> 200, transaction |-> transaction[1]])]
    /\ UNCHANGED <<now, today, ticks, fxRates, beneficiaries, transactions, nextBenId, nextTxId>>

\* PUT /api/admin/transactions/:id/status
PutTransactionStatus(p) ==
    /\ procs[p].pc = "idle"
    /\ \E user \in Principals, id \in TxIds, status \in StatusInputs, adminNotes \in NotesInputs :
          LET pr == [Idle EXCEPT !.req = [kind |-> "status", user |-> user, id |-> id,
                                          status |-> status, adminNotes |-> adminNotes]]
          IN  IF ~isAdmin[user]
              THEN /\ transactions' = transactions
                   /\ procs' = [procs EXCEPT ![p] =
                         Reply(pr, [status |-> 403, message |-> "Admin access required"])]
              ELSE IF status \notin ValidStatuses
              THEN /\ transactions' = transactions
                   /\ procs' = [procs EXCEPT ![p] =
                         Reply(pr, [status |-> 400, message |-> "Invalid status"])]
              ELSE /\ transactions' = updateTransactionStatus(id, status, adminNotes)
                   /\ procs' = [procs EXCEPT ![p] =
                         IF getTransactionById(id) = <<>>
                         THEN Reply(pr, [status |-> 404, message |-> "Transaction not found"])
                         ELSE Reply(pr, [status |-> 200])]
    /\ UNCHANGED <<now, today, ticks, fxRates, beneficiaries, nextBenId, nextTxId>>

Init ==
    /\ now = 0
    /\ today = 0
    /\ ticks = 0
    /\ fxRates = <<>>
    /\ beneficiaries = {}
    /\ transactions = {}
    /\ nextBenId = 1
    /\ nextTxId = 1
    /\ procs = [p \in AllProcs |-> Idle]

\* The steps of the FX service, whatever the provider and the database do.
FxStep(p) ==
    \/ GcrRead(p)
    \/ GcrWrite(p)
    \/ GcrCatch(p)
    \/ Respond(p)

\* The steps of the beneficiary and transaction handlers.
Step(p) ==
    \/ PostBeneficiary(p)
    \/ PutBeneficiary(p)
    \/ DeleteBeneficiary(p)
    \/ BenRead(p)
    \/ BenUpdate(p)
    \/ BenDelete(p)
    \/ PostTransaction(p)
    \/ TxInsert(p)
    \/ GetTransactionById(p)
    \/ PutTransactionStatus(p)

\* The transaction lifecycle: requests are served one at a time, the clock
\* runs between their steps, the provider is down or well-behaved and the
\* database answers.
Next ==
    \/ Tick(cacheDuration, MaxTicks)
    \/ \E p \in {"p1"} :
          \/ Step(p)
          \/ FxStep(p)
          \/ GcrFetch(p, PlainResponses(BaseCurrency(procs[p])))

Spec == Init /\ [][Next]_vars

\* The FX service alone under every answer of the provider and with a
\* database that may reject the cache's reads and writes.
NextFx ==
    \/ \E d \in TickSteps : Tick(d, MaxFxTicks)
    \/ \E p \in {"p1"} :
          \/ GetFxRates(p)
          \/ GetFxConvert(p)
          \/ FxStep(p)
          \/ GcrFetch(p, ProviderResponses(BaseCurrency(procs[p])))
          \/ GcrReadFails(p)
          \/ GcrWriteFails(p)
          \/ GcrCatchFails(p)

SpecFx == Init /\ [][NextFx]_vars

\* Pricing: quotes and transaction creations against the same cache, with a
\* provider that is down or well-behaved and a database that answers.
NextPricing ==
    \/ Tick(cacheDuration, MaxTicks)
    \/ \E p \in {"p1"} :
          \/ PostBeneficiary(p)
          \/ PostTransaction(p)
          \/ BenRead(p)
          \/ TxInsert(p)
          \/ GetFxConvert(p)
          \/ FxStep(p)
          \/ GcrFetch(p, PlainResponses(BaseCurrency(procs[p])))

SpecPricing == Init /\ [][NextPricing]_vars

\* Two requests in flight against the same tables: p1 creates transactions
\* while p2 manages beneficiaries; their steps interleave at every await.
NextShared ==
    \/ \E p \in {"p1"} :
          \/ PostTransaction(p)
          \/ TxInsert(p)
          \/ FxStep(p)
          \/ GcrFetch(p, PlainResponses(BaseCurrency(procs[p])))
    \/ \E p \in {"p2"} :
          \/ PostBeneficiary(p)
          \/ PutBeneficiary(p)
          \/ DeleteBeneficiary(p)
          \/ BenUpdate(p)
          \/ BenDelete(p)
          \/ Respond(p)
    \/ \E p \in AllProcs : BenRead(p)

SpecShared == Init /\ [][NextShared]_vars

\* The queries: customers create beneficiaries and transactions, days pass,
\* and the lists, searches and single reads are answered.
NextQuery ==
    \/ \E n \in DaySteps : TickDays(n, MaxDayTicks)
    \/ \E p \in {"p1"} :
          \/ PostBeneficiary(p)
          \/ PostTransaction(p)
          \/ BenRead(p)
          \/ TxInsert(p)
          \/ GetTransactions(p)
          \/ GetTransactionById(p)
          \/ FxStep(p)
          \/ GcrFetch(p, PlainResponses(BaseCurrency(procs[p])))

SpecQuery == Init /\ [][NextQuery]_vars

\* Creations whose bodies carry any of the client's fields.
NextClient ==
    \/ Tick(cacheDuration, MaxTicks)
    \/ \E p \in {"p1"} :
          \/ PostBeneficiary(p)
          \/ PostTransactionFrom(p, ClientFieldInputs)
          \/ BenRead(p)
          \/ TxInsert(p)
          \/ FxStep(p)
          \/ GcrFetch(p, PlainResponses(BaseCurrency(procs[p])))

SpecClient == Init /\ [][NextClient]_vars

\* Refreshes in flight together: every request in flight asks for the rates,
\* their awaits interleave and the clock may stand still between two of them.
NextRefresh ==
    \/ Tick(cacheDuration, MaxTicks)
    \/ \E p \in AllProcs :
          \/ GetFxRates(p)
          \/ FxStep(p)
          \/ GcrFetch(p, PlainResponses(BaseCurrency(procs[p])))

SpecRefresh == Init /\ [][NextRefresh]_vars

(***************************************************************************)
(* Properties of the transaction lifecycle (checked under Spec).           *)
(***************************************************************************)
TerminalStatuses == {"completed", "failed"}

\* The row of transaction id, before and after a step.
Before(id) == CHOOSE t \in transactions : t.id = id
After(id) == CHOOSE t \in transactions' : t.id = id
IdsOf(rows) == {t.id : t \in rows}

\* C1: once a transaction is completed or failed, no step changes its status.
TerminalStatusesStay ==
    [][\A id \in IdsOf(transactions) \cap IdsOf(transactions') :
          Before(id).status \in TerminalStatuses => After(id).status = Before(id).status]_vars

FrozenFields(t) ==
    <<t.userId, t.beneficiaryId, t.sourceAmount, t.sourceCurrency, t.targetAmount,
      t.targetCurrency, t.exchangeRate, t.baseFee, t.exchangeFee, t.totalFee,
      t.purpose, t.isHighRisk>>

\* C3: no step changes a field of an existing transaction other than status,
\* adminNotes and updatedAt.
TransactionFieldsFrozen ==
    [][\A id \in IdsOf(transactions) \cap IdsOf(transactions') :
          FrozenFields(After(id)) = FrozenFields(Before(id))]_vars

\* A transaction whose status was changed after its creation and whose
\* beneficiary has since moved to another currency.
TransactionFieldsFrozenWitness ==
    \E t \in transactions, b \in beneficiaries :
        /\ b.id = t.beneficiaryId
        /\ b.currency # t.targetCurrency
        /\ Earlier(t.createdAt, t.updatedAt)
        /\ t.isHighRisk
        /\ t.status = "completed"
        /\ t.adminNotes # <<>>

(***************************************************************************)
(* Properties of the FX service (checked under SpecFx).                    *)
(***************************************************************************)
\* The request of p took a step.
Stepped(p) == procs'[p] # procs[p]

\* The request of p has ended because getCurrentRates threw.
Raised(pr) ==
    /\ pr.pc = "done"
    /\ \/ pr.req.kind = "rates" /\ pr.resp.status = 500
       \/ pr.req.kind # "rates" /\ pr.resp.status = 400 /\ pr.resp.message = "Storage error"

LatestTables == {c[1].rates : c \in getLatestFxRates \ {<<>>}}
\* The age in ms of the newest cached table (of a cache written today).
LatestAge == now - (CHOOSE c \in getLatestFxRates : TRUE)[1].lastUpdated.ms

\* C4: a request for base B is only ever answered from a table the provider
\* gave for B, or from the built-in table.
PerBaseCache ==
    \A p \in AllProcs :
        (procs[p].pc = "done" /\ procs[p].req.kind \in {"rates", "convert"}
            /\ procs[p].table # <<>>)
        => procs[p].table[1] \in ProviderTables(BaseCurrency(procs[p])) \cup {getFallbackRates}

\* C5: getCurrentRates never throws to its caller.
NeverRaises == \A p \in AllProcs : ~Raised(procs[p])

\* C6: when the provider fetch fails, nothing is written, and the catch block,
\* if its cache read answers, returns the most recent cached table whatever its
\* age, and the built-in table (with EUR, GBP and JPY) only when the cache is
\* empty.
FallbackOrder ==
    [][\A p \in AllProcs :
          LET pr == procs[p]
              q == procs'[p]
          IN  /\ (pr.pc = "gcr_fetch" /\ Stepped(p) /\ ~q.response[1].ok)
                    => q.pc = "gcr_catch" /\ fxRates' = fxRates
              /\ (pr.pc = "gcr_catch" /\ Stepped(p) /\ ~Raised(q)
                    /\ pr.response # <<>> /\ ~pr.response[1].ok)
                    => /\ fxRates' = fxRates
                       /\ q.table # <<>>
                       /\ IF fxRates = <<>>
                          THEN /\ q.table[1] = getFallbackRates
                               /\ {"EUR", "GBP", "JPY"} \subseteq DOMAIN q.table[1]
                          ELSE q.table[1] \in LatestTables]_vars

\* The provider was down and GET /api/fx/rates was answered from a cached table
\* older than the freshness window.
FallbackOrderWitness ==
    \E p \in AllProcs :
        /\ procs[p].pc = "done"
        /\ procs[p].req.kind = "rates"
        /\ procs[p].response # <<>>
        /\ ~procs[p].response[1].ok
        /\ fxRates # <<>>
        /\ LatestAge > cacheDuration
        /\ procs[p].resp.status = 200
        /\ procs[p].resp.rates \in LatestTables
        /\ procs[p].resp.rates # getFallbackRates

\* C7: a 200 response without `rates` is a fetch failure: it goes to the catch
\* block, nothing is written, and the built-in table is never a cache entry.
MalformedIsFailure ==
    [][/\ \A p \in AllProcs :
             (procs[p].pc = "gcr_fetch" /\ Stepped(p)
                 /\ procs'[p].response[1].ok /\ procs'[p].response[1].rates = <<>>)
             => procs'[p].pc = "gcr_catch" /\ fxRates' = fxRates
       /\ \A r \in FxRows' : r.rates # getFallbackRates]_vars

\* C8: a well-formed table T from the provider is stored as the cache's newest
\* row and is what getCurrentRates returns.
RefreshStoresAndReturns ==
    [][\A p \in AllProcs :
          LET pr == procs[p]
              q == procs'[p]
          IN  /\ (pr.pc = "gcr_fetch" /\ Stepped(p)
                     /\ q.response[1].ok /\ q.response[1].rates # <<>>)
                    => q.pc = "gcr_write" /\ q.rates = q.response[1].rates
              /\ (pr.pc = "gcr_write" /\ Stepped(p) /\ q.pc # "gcr_catch")
                    => /\ fxRates' = Append(fxRates, [rates |-> pr.rates[1], lastUpdated |-> Date])
                       /\ q.table = pr.rates]_vars

\* C9: the try block answers from the cache, with no fetch and no write,
\* exactly when the newest cached table is younger than 900000 ms; otherwise
\* it goes on to the provider.
CacheHitIffFresh ==
    [][\A p \in AllProcs :
          LET pr == procs[p]
              q == procs'[p]
          IN  (pr.pc = "gcr_read" /\ Stepped(p) /\ q.pc # "gcr_catch")
              => /\ fxRates' = fxRates
                 /\ IF fxRates # <<>> /\ LatestAge < 900000
                    THEN q.table # <<>> /\ q.table[1] \in LatestTables /\ q.response = <<>>
                         /\ q.pc \in {"done", "gcr_read"}
                    ELSE q.pc = "gcr_fetch" /\ q.table = pr.table]_vars

\* GET /api/fx/rates was answered from a table of age 899999 ms without a fetch.
CacheHitIffFreshWitness ==
    \E p \in AllProcs :
        /\ procs[p].pc = "done"
        /\ procs[p].req.kind = "rates"
        /\ procs[p].response = <<>>
        /\ procs[p].resp.status = 200
        /\ fxRates # <<>>
        /\ LatestAge = cacheDuration - 1
        /\ procs[p].resp.rates \in LatestTables

(***************************************************************************)
(* Properties of pricing (checked under SpecPricing).                      *)
(***************************************************************************)
RateUnavailable(pr) ==
    pr.resp.status = 400 /\ pr.resp.message = "Exchange rate not available"

\* C10: a quote or a creation between two different currencies ends in
\* RateUnavailable exactly when the table getCurrentRates returned lacks the
\* target currency; otherwise the rate used is that table's entry.
RateUnavailableExactly ==
    \A p \in AllProcs :
        LET pr == procs[p]
        IN  /\ (pr.pc = "done" /\ pr.req.kind = "convert" /\ pr.req.to \in Currencies
                    /\ pr.req.from # pr.req.to)
                => pr.table # <<>>
            /\ (pr.pc = "done" /\ pr.req.kind = "create" /\ pr.beneficiary # <<>>
                    /\ pr.req.sourceCurrency # pr.beneficiary[1].currency)
                => pr.table # <<>>
            /\ (pr.pc = "done" /\ pr.req.kind \in {"convert", "create"} /\ pr.table # <<>>)
                => /\ RateUnavailable(pr) <=> ToCurrency(pr) \notin DOMAIN pr.table[1]
                   /\ (pr.req.kind = "convert" /\ ~RateUnavailable(pr))
                         => /\ pr.resp.status = 200
                            /\ pr.resp.exchangeRate = pr.table[1][ToCurrency(pr)]
                   /\ (pr.req.kind = "create" /\ ~RateUnavailable(pr))
                         => /\ pr.resp.status = 201
                            /\ pr.resp.transaction.targetAmount =
                                  convertAmount(pr.req.sourceAmount, pr.table[1][ToCurrency(pr)])

\* A creation from EUR to a USD beneficiary was rejected because the table it
\* got has no USD entry, and no transaction exists.
RateUnavailableExactlyWitness ==
    \E p \in AllProcs :
        /\ procs[p].pc = "done"
        /\ procs[p].req.kind = "create"
        /\ RateUnavailable(procs[p])
        /\ procs[p].table # <<>>
        /\ ToCurrency(procs[p]) \notin DOMAIN procs[p].table[1]
        /\ transactions = {}

\* C11: when the provider fetch has failed, a lookup between two different
\* currencies ends in RateUnavailable only if the cache is empty and the
\* built-in table lacks the target currency; in every other case the catch
\* block's table yields a rate.
FallbackExhaustion ==
    [][\A p \in AllProcs :
          LET pr == procs[p]
              q == procs'[p]
          IN  (pr.pc = "gcr_catch" /\ Stepped(p)
                  /\ pr.response # <<>> /\ ~pr.response[1].ok)
              => /\ RateUnavailable(q)
                      => fxRates = <<>> /\ ToCurrency(pr) \notin DOMAIN getFallbackRates
                 /\ ~(fxRates = <<>> /\ ToCurrency(pr) \notin DOMAIN getFallbackRates)
                      => q.table # <<>> /\ ToCurrency(pr) \in DOMAIN q.table[1]]_vars

\* C12: a lookup from a currency to itself answers 1 at once: the request
\* never reads the cache, asks the provider or writes the cache, whatever the
\* cache holds, and the amount is converted at 1.
IdentityRate ==
    [][\A p \in AllProcs :
          LET pr == procs[p]
              q == procs'[p]
          IN  /\ (pr.pc = "idle" /\ q.req.kind = "convert" /\ q.req.from = q.req.to)
                    => /\ q.pc = "done"
                       /\ q.resp.status = 200
                       /\ q.resp.exchangeRate = RateScale
                       /\ q.resp.targetAmount = q.req.amount
                       /\ q.table = <<>> /\ q.response = <<>>
                       /\ fxRates' = fxRates
              /\ (pr.pc = "ben_read" /\ pr.req.kind = "create" /\ q.beneficiary # <<>>
                     /\ pr.req.sourceCurrency = q.beneficiary[1].currency)
                    => /\ q.pc = "tx_insert"
                       /\ q.exchangeRate = RateScale
                       /\ q.targetAmount = pr.req.sourceAmount
                       /\ q.table = <<>> /\ q.response = <<>>
                       /\ fxRates' = fxRates]_vars

\* A quote from EUR to EUR was answered at rate 1 while the cache was empty.
IdentityRateWitness ==
    \E p \in AllProcs :
        /\ procs[p].pc = "done"
        /\ procs[p].req.kind = "convert"
        /\ procs[p].req.from = "EUR" /\ procs[p].req.to = "EUR"
        /\ procs[p].resp.status = 200
        /\ procs[p].resp.exchangeRate = RateScale
        /\ fxRates = <<>>

(***************************************************************************)
(* Properties of ownership and of the status route.                        *)
(***************************************************************************)
OwnedBy(id, user) == \E b \in beneficiaries : b.id = id /\ b.userId = user

\* C13: a creation whose beneficiaryId does not resolve to a beneficiary of
\* the caller is rejected with "Invalid beneficiary" and inserts nothing, and
\* every transaction that is inserted names a beneficiary its owner owns at
\* that moment, also when beneficiaries are updated and deleted meanwhile.
BeneficiaryOwnedOnCreation ==
    [][/\ \A p \in AllProcs :
             LET pr == procs[p]
                 q == procs'[p]
             IN  (pr.pc = "ben_read" /\ pr.req.kind = "create" /\ Stepped(p)
                     /\ ~OwnedBy(pr.req.id, pr.req.user))
                 => /\ q.pc = "done"
                    /\ q.resp = [status |-> 400, message |-> "Invalid beneficiary"]
                    /\ transactions' = transactions
       /\ \A t \in transactions' \ transactions : OwnedBy(t.beneficiaryId, t.userId)]_vars

\* alice's creation naming bob's beneficiary was rejected and nothing was
\* inserted.
BeneficiaryOwnedOnCreationWitness ==
    /\ procs["p1"].pc = "done"
    /\ procs["p1"].req.kind = "create"
    /\ procs["p1"].req.user = "alice"
    /\ OwnedBy(procs["p1"].req.id, "bob")
    /\ procs["p1"].resp = [status |-> 400, message |-> "Invalid beneficiary"]
    /\ transactions = {}

\* C14: a status request of a caller who is not an administrator is answered
\* 403 and changes no transaction, and every change of the status or the
\* adminNotes of an existing transaction is the step of an administrator's
\* status request for that transaction.
AdminOnlyStatus ==
    [][/\ \A p \in AllProcs :
             LET q == procs'[p]
             IN  (procs[p].pc = "idle" /\ q.req.kind = "status" /\ q.req.user # "root")
                 => /\ q.resp = [status |-> 403, message |-> "Admin access required"]
                    /\ transactions' = transactions
       /\ \A id \in IdsOf(transactions) \cap IdsOf(transactions') :
             (After(id).status # Before(id).status \/ After(id).adminNotes # Before(id).adminNotes)
             => \E p \in AllProcs :
                   /\ procs[p].pc = "idle"
                   /\ procs'[p].req.kind = "status"
                   /\ procs'[p].req.user = "root"
                   /\ procs'[p].req.id = id
                   /\ procs'[p].resp.status = 200]_vars

\* alice asked for the completion of a pending transaction and was refused;
\* the transaction is as it was created.
AdminOnlyStatusWitness ==
    \E p \in AllProcs, t \in transactions :
        /\ procs[p].pc = "done"
        /\ procs[p].req.kind = "status"
        /\ procs[p].req.user = "alice"
        /\ procs[p].req.id = t.id
        /\ procs[p].req.status = "completed"
        /\ procs[p].resp.status = 403
        /\ t.status = "pending" /\ t.adminNotes = <<>> /\ t.updatedAt = t.createdAt

\* C15: an administrator's status request with a status other than pending,
\* processing, completed or failed is answered 400 "Invalid status" and
\* changes nothing (status, adminNotes and updatedAt stay), and a request with
\* a valid status for an unknown transaction is answered 404 "Transaction not
\* found" and changes nothing.
InvalidStatusRejected ==
    [][\A p \in AllProcs :
          LET q == procs'[p]
          IN  (procs[p].pc = "idle" /\ q.req.kind = "status" /\ q.req.user = "root")
              => /\ q.req.status \notin {"pending", "processing", "completed", "failed"}
                      => /\ q.resp = [status |-> 400, message |-> "Invalid status"]
                         /\ transactions' = transactions
                 /\ (q.req.status \in {"pending", "processing", "completed", "failed"}
                       /\ q.req.id \notin IdsOf(transactions))
                      => /\ q.resp = [status |-> 404, message |-> "Transaction not found"]
                         /\ transactions' = transactions]_vars

\* The administrator asked for the status "cancelled" of an existing
\* transaction and got "Invalid status".
InvalidStatusRejectedWitness ==
    \E p \in AllProcs, t \in transactions :
        /\ procs[p].pc = "done"
        /\ procs[p].req.kind = "status"
        /\ procs[p].req.user = "root"
        /\ procs[p].req.id = t.id
        /\ procs[p].req.status = "cancelled"
        /\ procs[p].resp = [status |-> 400, message |-> "Invalid status"]
        /\ t.updatedAt = t.createdAt

\* C16: an update or a delete of a beneficiary the caller does not own is
\* answered 404 "Beneficiary not found", the answer for an id that does not
\* exist, and leaves the beneficiaries as they are.
ForeignBeneficiaryNotFound ==
    [][\A p \in AllProcs :
          LET pr == procs[p]
              q == procs'[p]
          IN  (pr.pc = "ben_read" /\ pr.req.kind \in {"ben_update", "ben_delete"}
                  /\ Stepped(p) /\ ~OwnedBy(pr.req.id, pr.req.user))
              => /\ q.pc = "done"
                 /\ q.resp = [status |-> 404, message |-> "Beneficiary not found"]
                 /\ beneficiaries' = beneficiaries]_vars

\* bob's delete of alice's beneficiary was answered "Beneficiary not found"
\* and the beneficiary is still there.
ForeignBeneficiaryNotFoundWitness ==
    \E p \in AllProcs :
        /\ procs[p].pc = "done"
        /\ procs[p].req.kind = "ben_delete"
        /\ procs[p].req.user = "bob"
        /\ OwnedBy(procs[p].req.id, "alice")
        /\ procs[p].resp = [status |-> 404, message |-> "Beneficiary not found"]

\* C17: the delete of a beneficiary by its owner succeeds and removes it,
\* whether or not transactions reference it.
UnconditionalDeletion ==
    [][\A p \in AllProcs :
          LET pr == procs[p]
              q == procs'[p]
          IN  (pr.pc = "ben_delete" /\ Stepped(p) /\ OwnedBy(pr.req.id, pr.req.user))
              => /\ q.resp.status = 200
                 /\ \A b \in beneficiaries' : b.id # pr.req.id]_vars

\* C18: no step removes a transaction: every id of a persisted transaction
\* is the id of a persisted transaction after the step.
TransactionsNeverDeleted ==
    [][IdsOf(transactions) \subseteq IdsOf(transactions')]_vars

\* A transaction is still there after its status was changed and the delete
\* of its beneficiary was asked for.
TransactionsNeverDeletedWitness ==
    \E p \in AllProcs, t \in transactions :
        /\ procs[p].pc = "done"
        /\ procs[p].req.kind = "ben_delete"
        /\ procs[p].req.id = t.beneficiaryId
        /\ procs[p].req.user = t.userId
        /\ Earlier(t.createdAt, t.updatedAt)

\* C19: the status of every persisted transaction is pending, processing,
\* completed or failed.
StatusDomain ==
    \A t \in transactions : t.status \in {"pending", "processing", "completed", "failed"}

\* A transaction the administrator has moved to processing, after a request
\* for "cancelled" was refused.
StatusDomainWitness ==
    \E p \in AllProcs, t \in transactions :
        /\ t.status = "processing"
        /\ Earlier(t.createdAt, t.updatedAt)
        /\ procs[p].pc = "done"
        /\ procs[p].req.kind = "status"
        /\ procs[p].req.status = "cancelled"
        /\ procs[p].req.user = "root"

(***************************************************************************)
(* Properties of the fee schedule (checked under SpecPricing).             *)
(***************************************************************************)
\* 0.5% of an amount of cents, rounded to the cent, halves up.
HalfPercent(amount) == (2 * 5 * amount + 1000) \div 2000

\* C20: the fees of an amount a are 4.99, a * 0.005 rounded to two decimals
\* and their sum: in every quote, and in the fee fields of every persisted
\* transaction for its sourceAmount.
FeeSchedule ==
    /\ \A p \in AllProcs :
          (procs[p].pc = "done" /\ procs[p].req.kind = "convert" /\ procs[p].resp.status = 200
              /\ procs[p].req.amount > 0)
          => procs[p].resp.fees =
                [baseFee |-> 499, exchangeFee |-> HalfPercent(procs[p].req.amount),
                 totalFee |-> 499 + HalfPercent(procs[p].req.amount)]
    /\ \A t \in transactions :
          /\ t.baseFee = 499
          /\ t.exchangeFee = HalfPercent(t.sourceAmount)
          /\ t.totalFee = t.baseFee + t.exchangeFee

(***************************************************************************)
(* Properties of validation and of failed creations.                       *)
(***************************************************************************)
\* C21: a quote whose amount is not a number, and a creation whose amount is
\* not a number or whose purpose is missing, is answered 400 in its first
\* step: no rate lookup starts, nothing is fetched, written or persisted.
ValidationFirst ==
    [][\A p \in AllProcs :
          LET q == procs'[p]
          IN  (procs[p].pc = "idle"
                 /\ \/ q.req.kind = "convert" /\ q.req.amount = NaN
                    \/ q.req.kind = "create" /\ (q.req.sourceAmount = NaN \/ q.req.purpose = ""))
              => /\ q.pc = "done"
                 /\ q.resp.status = 400
                 /\ fxRates' = fxRates
                 /\ transactions' = transactions]_vars

(***************************************************************************)
(* Properties of the queries (checked under SpecQuery).                    *)
(***************************************************************************)
\* createdAt lies in the relative range: the last 30, 90 or 365 days; any
\* other value of dateRange asks for no filter.
InRange(t, dateRange) ==
    CASE dateRange = "30days" -> ~Earlier(t.createdAt, MinusDays(Date, 30))
      [] dateRange = "90days" -> ~Earlier(t.createdAt, MinusDays(Date, 90))
      [] dateRange = "year" -> ~Earlier(t.createdAt, MinusDays(Date, 365))
      [] OTHER -> TRUE

RowsOf(r) == {r[i] : i \in 1..Len(r)}

\* C22: a search answers exactly the owner's transactions whose beneficiary
\* name matches the query and whose createdAt is in the date range, newest
\* first; the date range filters also when a name query is given.
SearchComposition ==
    [][\A p \in AllProcs :
          LET q == procs'[p]
              expected ==
                 {t \in transactions :
                     /\ t.userId = q.req.user
                     /\ q.req.search # "" =>
                           \E b \in beneficiaries :
                              b.id = t.beneficiaryId /\ ilike(b.name, q.req.search)
                     /\ InRange(t, q.req.dateRange)}
          IN  (procs[p].pc = "idle" /\ q.req.kind = "list"
                  /\ (q.req.search # "" \/ q.req.dateRange # ""))
              => /\ RowsOf(q.resp.transactions) = expected
                 /\ Len(q.resp.transactions) = Cardinality(expected)
                 /\ \A i, j \in 1..Len(q.resp.transactions) :
                       i < j => ~Earlier(q.resp.transactions[i].createdAt,
                                         q.resp.transactions[j].createdAt)]_vars

\* C23: a list or a search of a customer holds only transactions of that
\* customer, a single read answers a transaction only to its owner, and the
\* read of another owner's transaction gets the 404 of an unknown id.
OwnerScopedReads ==
    [][\A p \in AllProcs :
          LET q == procs'[p]
          IN  /\ (procs[p].pc = "idle" /\ q.req.kind = "list")
                    => \A t \in RowsOf(q.resp.transactions) : t.userId = q.req.user
              /\ (procs[p].pc = "idle" /\ q.req.kind = "get")
                    => IF \E t \in transactions : t.id = q.req.id /\ t.userId = q.req.user
                       THEN /\ q.resp.status = 200
                            /\ q.resp.transaction \in transactions
                            /\ q.resp.transaction.userId = q.req.user
                       ELSE q.resp = [status |-> 404, message |-> "Transaction not found"]]_vars

\* alice asked for bob's transaction and got "Transaction not found".
OwnerScopedReadsWitness ==
    \E p \in AllProcs, t \in transactions :
        /\ procs[p].pc = "done"
        /\ procs[p].req.kind = "get"
        /\ procs[p].req.user = "alice"
        /\ procs[p].req.id = t.id
        /\ t.userId = "bob"
        /\ procs[p].resp = [status |-> 404, message |-> "Transaction not found"]

(***************************************************************************)
(* Properties of the status route (checked under Spec).                    *)
(***************************************************************************)
\* An administrator's request moves the pending transaction `id` to
\* processing or failed in this step.
Reviews(p, id) ==
    /\ procs[p].pc = "idle"
    /\ procs'[p].req.kind = "status"
    /\ procs'[p].req.user = "root"
    /\ procs'[p].req.id = id
    /\ procs'[p].req.status \in {"processing", "failed"}
    /\ id \in IdsOf(transactions)
    /\ Before(id).status = "pending"

\* C24: an administrator's update of a pending transaction to processing or
\* failed succeeds: the status is the one asked for, adminNotes are the notes
\* of the request when it has any, and updatedAt is the instant of the call,
\* never earlier than the updatedAt before it.
ReviewApplies ==
    [][\A p \in AllProcs, id \in TxIds :
          Reviews(p, id)
          => /\ procs'[p].resp.status = 200
             /\ After(id).status = procs'[p].req.status
             /\ procs'[p].req.adminNotes # <<>>
                   => After(id).adminNotes = procs'[p].req.adminNotes
             /\ After(id).updatedAt = Date
             /\ ~Earlier(After(id).updatedAt, Before(id).updatedAt)]_vars

\* C24 as stated: after the update updatedAt is later than before the call.
ReviewMovesUpdatedAt ==
    [][\A p \in AllProcs, id \in TxIds :
          Reviews(p, id) => Earlier(Before(id).updatedAt, After(id).updatedAt)]_vars

\* The administrator has failed a pending transaction with a note, 15 minutes
\* after its creation.
ReviewAppliesWitness ==
    \E p \in AllProcs, t \in transactions :
        /\ procs[p].pc = "done"
        /\ procs[p].req.kind = "status"
        /\ procs[p].req.user = "root"
        /\ procs[p].req.id = t.id
        /\ procs[p].req.status = "failed"
        /\ procs[p].resp.status = 200
        /\ t.isHighRisk
        /\ t.status = "failed"
        /\ t.adminNotes = <<"checked">>
        /\ t.updatedAt = [day |-> 0, ms |-> cacheDuration]
        /\ t.createdAt = [day |-> 0, ms |-> 0]

\* C25: a creation never yields status processing and holds a high-risk
\* transaction in pending; the status of an existing transaction changes only
\* in the step of an administrator's status request for it, to the status of
\* that request: no tick of the clock, rate refresh, beneficiary operation or
\* read changes it.
NoAutomaticPromotion ==
    [][/\ \A t \in transactions' :
             t.id \notin IdsOf(transactions)
             => /\ t.status # "processing"
                /\ t.isHighRisk => t.status = "pending"
       /\ \A id \in IdsOf(transactions) \cap IdsOf(transactions') :
             After(id).status # Before(id).status
             => \E p \in AllProcs :
                   /\ procs[p].pc = "idle"
                   /\ procs'[p].req.kind = "status"
                   /\ isAdmin[procs'[p].req.user]
                   /\ procs'[p].req.id = id
                   /\ procs'[p].req.status = After(id).status]_vars

\* A high-risk transaction is still pending 15 minutes after its creation,
\* after the rates were refreshed for the next request.
NoAutomaticPromotionWitness ==
    \E t \in transactions :
        /\ t.isHighRisk
        /\ t.status = "pending"
        /\ Earlier(t.updatedAt, Date)
        /\ fxRates # <<>>
        /\ Earlier(t.createdAt, fxRates[Len(fxRates)].lastUpdated)

(***************************************************************************)
(* Properties of concurrent refreshes (checked under SpecRefresh).         *)
(***************************************************************************)
\* A step that changes the cache appends one row: the whole table a refresh
\* fetched, stamped with the instant of the write; the rows before it stay.
WholeTableInserts ==
    fxRates' # fxRates
    => \E p \in AllProcs :
          /\ procs[p].pc = "gcr_write"
          /\ fxRates' = Append(fxRates, [rates |-> procs[p].rates[1], lastUpdated |-> Date])
          /\ procs[p].rates[1] \in ProviderTables("USD") \cup {getFallbackRates}

\* The row the cache read answers is the row written last.
LatestIsLastWritten ==
    fxRates # <<>> => getLatestFxRates = {<<fxRates[Len(fxRates)]>>}

\* C26: every cache write is one insert of a whole table that keeps the
\* earlier rows, and in every state the cache's current entry is the table
\* written last.
LastWriteWins == [][WholeTableInserts]_vars /\ []LatestIsLastWritten

(***************************************************************************)
(* Properties of one pricing (checked under SpecPricing).                  *)
(***************************************************************************)
\* C27: every persisted transaction and every quote carries the target
\* amount of its own exchange rate: targetAmount is sourceAmount times the
\* exchangeRate reported with it, rounded to two decimals.
OneRateSnapshot ==
    /\ \A t \in transactions :
          t.targetAmount = convertAmount(t.sourceAmount, t.exchangeRate)
    /\ \A p \in AllProcs :
          (/\ procs[p].pc = "done"
           /\ procs[p].req.kind = "convert"
           /\ procs[p].resp.status = 200
           /\ procs[p].req.amount # NaN)
          => procs[p].resp.targetAmount
                = convertAmount(procs[p].req.amount, procs[p].resp.exchangeRate)

(***************************************************************************)
(* Properties of the request body (checked under SpecClient).              *)
(***************************************************************************)
\* The pricing fields of a row.
PricingOf(t) ==
    [targetCurrency |-> t.targetCurrency, targetAmount |-> t.targetAmount,
     exchangeRate |-> t.exchangeRate, baseFee |-> t.baseFee,
     exchangeFee |-> t.exchangeFee, totalFee |-> t.totalFee,
     isHighRisk |-> t.isHighRisk, status |-> t.status]

\* What the server derives for a creation from the owner's beneficiary, the
\* amount and the rate and target amount its lookups gave.
ServerPricing(pr) ==
    LET fees == calculateFees(pr.req.sourceAmount)
        isHighRisk == pr.req.sourceAmount > HighRiskThreshold
    IN  [targetCurrency |-> pr.beneficiary[1].currency, targetAmount |-> pr.targetAmount,
         exchangeRate |-> pr.exchangeRate, baseFee |-> fees.baseFee,
         exchangeFee |-> fees.exchangeFee, totalFee |-> fees.totalFee,
         isHighRisk |-> isHighRisk,
         status |-> IF isHighRisk THEN "pending" ELSE "completed"]

\* C29: the pricing fields, the risk flag and the status of a persisted
\* transaction are those the server derives from the owner, the beneficiary,
\* the amount, the source currency and the rates its lookups gave, whatever
\* the request body carries for them; the notes of the body are not stored.
ServerSidePricing ==
    [][\A p \in AllProcs :
          (procs[p].pc = "tx_insert" /\ procs'[p].resp.status = 201)
          => LET t == procs'[p].resp.transaction
             IN  /\ transactions' = transactions \cup {t}
                 /\ PricingOf(t) = ServerPricing(procs[p])
                 /\ t.adminNotes = <<>>
                 /\ t.userId = procs[p].req.user
                 /\ t.beneficiaryId = procs[p].req.id
                 /\ t.sourceAmount = procs[p].req.sourceAmount
                 /\ t.sourceCurrency = procs[p].req.sourceCurrency
                 /\ t.purpose = procs[p].req.purpose]_vars

\* A body that claimed a target amount of 10,000.01 at a rate of 0.0001, no
\* fees and status processing was persisted with none of these.
ServerSidePricingWitness ==
    \E p \in AllProcs, t \in transactions :
        /\ procs[p].pc = "done"
        /\ procs[p].req.kind = "create"
        /\ procs[p].req.client = <<ForgedFields>>
        /\ procs[p].resp.status = 201
        /\ procs[p].resp.transaction = t
        /\ t.sourceCurrency # t.targetCurrency
        /\ \A k \in DOMAIN PricingOf(t) : PricingOf(t)[k] # ForgedFields[k]

(***************************************************************************)
(* Properties of creations racing deletions (checked under SpecShared).    *)
(***************************************************************************)
\* C28: in every state every persisted transaction's beneficiaryId is the id
\* of a beneficiary that exists.
ReferentialIntegrity ==
    \A t \in transactions : getBeneficiaryById(t.beneficiaryId) # <<>>

\* The owner's delete of a beneficiary that a transaction references was
\* turned down, and the beneficiary is still there.
ReferentialIntegrityWitness ==
    \E t \in transactions :
        /\ procs["p2"].pc = "done"
        /\ procs["p2"].req.kind = "ben_delete"
        /\ procs["p2"].req.id = t.beneficiaryId
        /\ procs["p2"].req.user = t.userId
        /\ procs["p2"].resp.status = 500
        /\ getBeneficiaryById(t.beneficiaryId) # <<>>

\* A step of a creation request of p that is not its successful insert.
CreationStepWithoutInsert(p) ==
    /\ Stepped(p)
    /\ procs[p].req.kind = "create" \/ procs'[p].req.kind = "create"
    /\ ~(procs[p].pc = "tx_insert" /\ procs'[p].resp.status = 201)

\* C30: no step of a creation other than its final, successful insert changes
\* the transactions or the beneficiaries, so a creation that ends in an error
\* persists nothing; a transaction appears only in the insert step of a
\* creation whose ownership check and pricing succeeded, and it is the one
\* record that step adds.
FailedCreationPersistsNothing ==
    [][/\ \A p \in AllProcs :
             CreationStepWithoutInsert(p)
             => transactions' = transactions /\ beneficiaries' = beneficiaries
       /\ transactions' # transactions
             => \E p \in AllProcs :
                   /\ procs[p].pc = "tx_insert"
                   /\ procs[p].req.kind = "create"
                   /\ procs[p].beneficiary # <<>>
                   /\ procs[p].exchangeRate > 0
                   /\ procs[p].targetAmount > 0
                   /\ procs'[p].pc = "done"
                   /\ procs'[p].resp.status = 201
                   /\ procs'[p].resp.transaction \notin transactions
                   /\ transactions' = transactions \cup {procs'[p].resp.transaction}
                   /\ beneficiaries' = beneficiaries]_vars

\* A creation for the owner's beneficiary ended with "Exchange rate not
\* available"; no transaction exists and the beneficiary is as it was.
FailedCreationPersistsNothingWitness ==
    /\ procs["p1"].pc = "done"
    /\ procs["p1"].req.kind = "create"
    /\ procs["p1"].resp = [status |-> 400, message |-> "Exchange rate not available"]
    /\ procs["p1"].table = <<getFallbackRates>>
    /\ transactions = {}
    /\ nextTxId = 1
    /\ procs["p1"].beneficiary # <<>>
    /\ procs["p1"].beneficiary[1] \in beneficiaries

====
